---------------------------- MODULE Spec2Model ----------------------------
(***************************************************************************)
(* A model of the core of the Squidex client SDK:                          *)
(*   - QueryBuilder          (src/src/types/query.ts)                      *)
(*   - handleSquidexError,   (src/src/utils/error-handler.ts,              *)
(*     isRetryableError       src/src/types/error.ts)                      *)
(*   - HttpClient            (src/src/client/http-client.ts)               *)
(*                                                                         *)
(* JavaScript strings are sequences of one-character strings, so that      *)
(* template literals, quoting and Array.join are computed, not assumed.    *)
(* JavaScript values carry their typeof as a tag.                          *)
(***************************************************************************)
EXTENDS Integers, Sequences, FiniteSets, TLC

VARIABLES
    config,         \* the SquidexClientConfig the HttpClient was constructed with
    pc,             \* where the current HttpClient request stands
    attempts,       \* attempts sent for the current request
    retryCount,     \* axios-retry's retry counter of the current request
    failure,        \* the raw failure of the most recent attempt
    delays,         \* the delays waited before the retries of the current request
    level,          \* enclosing interceptor chains that still have to run
    inflight,       \* the error travelling through the response interceptors
    settled,        \* what the request handed its caller
    op,             \* the error-handler function called last
    error,          \* the value it was called with
    result,         \* how that call ended: what it returned or threw
    filters,        \* QueryBuilder.filters: string[]
    orderByClause,  \* QueryBuilder.orderByClause?: string
    topLimit,       \* QueryBuilder.topLimit?: number
    skipOffset,     \* QueryBuilder.skipOffset?: number
    searchQuery,    \* QueryBuilder.searchQuery?: string
    ret,            \* what the most recent QueryBuilder call returned
    calls,          \* history: the clause-appending calls made, in call order
    latest,         \* history: the arguments of the latest orderBy, top, skip, search
    peer,           \* the other QueryBuilder instance: its fields and its history
    globalClient,   \* global-config.ts: let globalClient: SquidexClient | null
    created,        \* the number of SquidexClient instances constructed so far
    answer,         \* how the most recent global-config call ended
    setup,          \* history: the latest configure / resetConfiguration call, and the
                    \* client getClient has handed out since
    clientConfig,   \* SquidexClient.config: the fields of the configuration object
    headersMap,     \* the contents of the object clientConfig.headers refers to
    copy,           \* the object the most recent getConfig() returned
    axiosDefaults,  \* what axios.create was given when the client was constructed
    constructedWith \* history: the configuration as it was at construction

builderVars ==
    <<filters, orderByClause, topLimit, skipOffset, searchQuery, ret, calls, latest>>

errVars == <<op, error, result>>

httpVars == <<config, pc, attempts, retryCount, failure, delays, level, inflight, settled>>

\* what lies outside the QueryBuilder being called, the error handler and the
\* HttpClient
globalVars == <<globalClient, created, answer, setup>>

clientVars == <<clientConfig, headersMap, copy, axiosDefaults, constructedWith>>

extraVars == <<peer, globalVars, clientVars>>

vars == <<builderVars, errVars, httpVars, extraVars>>

---------------------------------------------------------------------------
(* JavaScript values *)

\* an optional property that was never assigned
Undefined == [set |-> FALSE]

Some(v) == [set |-> TRUE, v |-> v]

Str(s) == [t |-> "string", s |-> s]

Num(n) == [t |-> "number", n |-> n]

Bool(b) == [t |-> "boolean", b |-> b]

Digit(d) ==
    CASE d = 0 -> "0" [] d = 1 -> "1" [] d = 2 -> "2" [] d = 3 -> "3"
      [] d = 4 -> "4" [] d = 5 -> "5" [] d = 6 -> "6" [] d = 7 -> "7"
      [] d = 8 -> "8" [] d = 9 -> "9"

RECURSIVE NatToString(_)
NatToString(n) ==
    IF n < 10 THEN <<Digit(n)>> ELSE NatToString(n \div 10) \o <<Digit(n % 10)>>

\* String(n) for an integer n
NumberToString(n) ==
    IF n < 0 THEN <<"-">> \o NatToString(-n) ELSE NatToString(n)

\* the text a template literal `${value}` substitutes for a value
toText(value) ==
    CASE value.t = "string" -> value.s
      [] value.t = "number" -> NumberToString(value.n)
      [] value.t = "boolean" ->
            IF value.b THEN <<"t", "r", "u", "e">> ELSE <<"f", "a", "l", "s", "e">>

\* Array.prototype.join
RECURSIVE join(_, _)
join(arr, sep) ==
    IF Len(arr) = 0 THEN <<>>
    ELSE IF Len(arr) = 1 THEN arr[1]
    ELSE arr[1] \o sep \o join(Tail(arr), sep)

\* if (x) for an optional string property: undefined and '' are falsy
TruthyString(x) == x.set /\ Len(x.v) > 0

---------------------------------------------------------------------------
(* QueryBuilder: clause rendering *)

\* mutant: every literal quoted, numbers and booleans included
formattedValue_AlwaysQuoted(value) == <<"'">> \o toText(value) \o <<"'">>

\* typeof value === 'string' ? `'${value}'` : value, then interpolated
formattedValue(value) ==
    IF value.t = "string" THEN <<"'">> \o value.s \o <<"'">> ELSE toText(value)

equalsClause(field, value) ==
    field \o <<" ", "e", "q", " ">> \o formattedValue(value)

notEqualsClause(field, value) ==
    field \o <<" ", "n", "e", " ">> \o formattedValue(value)

greaterThanClause(field, value) ==
    field \o <<" ", "g", "t", " ">> \o toText(value)

greaterThanOrEqualClause(field, value) ==
    field \o <<" ", "g", "e", " ">> \o toText(value)

lessThanClause(field, value) ==
    field \o <<" ", "l", "t", " ">> \o toText(value)

lessThanOrEqualClause(field, value) ==
    field \o <<" ", "l", "e", " ">> \o toText(value)

containsClause(field, value) ==
    <<"c", "o", "n", "t", "a", "i", "n", "s", "(">> \o field \o <<",", " ", "'">>
        \o toText(value) \o <<"'", ")">>

\* mutant: the function spelt as the method is
startsWithClause_CamelCase(field, value) ==
    <<"s", "t", "a", "r", "t", "s", "W", "i", "t", "h", "(">> \o field \o <<",", " ", "'">>
        \o toText(value) \o <<"'", ")">>

startsWithClause(field, value) ==
    <<"s", "t", "a", "r", "t", "s", "w", "i", "t", "h", "(">> \o field \o <<",", " ", "'">>
        \o toText(value) \o <<"'", ")">>

endsWithClause(field, value) ==
    <<"e", "n", "d", "s", "w", "i", "t", "h", "(">> \o field \o <<",", " ", "'">>
        \o toText(value) \o <<"'", ")">>

\* mutant: the values separated by a comma and a space
inClause_SpacedCommas(field, values) ==
    LET formattedValues ==
            join([i \in 1..Len(values) |-> formattedValue(values[i])], <<",", " ">>)
    IN  field \o <<" ", "i", "n", " ", "(">> \o formattedValues \o <<")">>

inClause(field, values) ==
    LET formattedValues ==
            join([i \in 1..Len(values) |-> formattedValue(values[i])], <<",">>)
    IN  field \o <<" ", "i", "n", " ", "(">> \o formattedValues \o <<")">>

rawClause(expression) == expression

orderByText(field, direction) == field \o <<" ">> \o direction

\* the clause one recorded call pushes
Rendered(call) ==
    CASE call.m = "equals" -> equalsClause(call.field, call.value)
      [] call.m = "notEquals" -> notEqualsClause(call.field, call.value)
      [] call.m = "greaterThan" -> greaterThanClause(call.field, call.value)
      [] call.m = "greaterThanOrEqual" -> greaterThanOrEqualClause(call.field, call.value)
      [] call.m = "lessThan" -> lessThanClause(call.field, call.value)
      [] call.m = "lessThanOrEqual" -> lessThanOrEqualClause(call.field, call.value)
      [] call.m = "contains" -> containsClause(call.field, call.value)
      [] call.m = "startsWith" -> startsWithClause(call.field, call.value)
      [] call.m = "endsWith" -> endsWithClause(call.field, call.value)
      [] call.m = "in" -> inClause(call.field, call.value)
      [] call.m = "raw" -> rawClause(call.value)

---------------------------------------------------------------------------
(* QueryBuilder: build() *)

\* mutant: the separator without its spaces
AND_NoSpaces == <<"a", "n", "d">>

AND == <<" ", "a", "n", "d", " ">>

hasFilter(fs) == Len(fs) > 0

QueryKeys(fs, ob, tl, so, sq) ==
    {k \in {"$filter", "$orderby", "$top", "$skip", "$search"} :
        CASE k = "$filter" -> hasFilter(fs)
          [] k = "$orderby" -> TruthyString(ob)
          [] k = "$top" -> tl.set
          [] k = "$skip" -> so.set
          [] k = "$search" -> TruthyString(sq)}

\* the object build() returns: a function from the keys present to their values
buildQuery(fs, ob, tl, so, sq) ==
    [k \in QueryKeys(fs, ob, tl, so, sq) |->
        CASE k = "$filter" -> join(fs, AND)
          [] k = "$orderby" -> ob.v
          [] k = "$top" -> tl.v
          [] k = "$skip" -> so.v
          [] k = "$search" -> sq.v]

\* what build() would return in the current state
Built == buildQuery(filters, orderByClause, topLimit, skipOffset, searchQuery)

This == [kind |-> "this"]

---------------------------------------------------------------------------
(* Bounds and input domains *)

MaxClauses == 2

Fields == {<<"f">>}

Strings == {<<"o", "'", "k">>}

Numbers == {12}

Values == {Str(s) : s \in Strings} \cup {Num(-3), Bool(TRUE)}

InLists == {<<>>, <<Str(<<"a">>), Str(<<"b">>)>>, <<Num(2), Num(1), Num(2)>>}

RawExpressions == {<<>>, <<"r">>}

Directions == {<<"a", "s", "c">>, <<"d", "e", "s", "c">>}

Limits == {20}

Offsets == {5}

SearchTerms == {<<>>, <<"a">>}

\* the arguments of the settings-centred specification: two sort fields, page
\* sizes and offsets that are negative, zero and positive, three search texts
OrderFields == {<<"f">>, <<"g">>}

PageSizes == {-1, 0, 20}

PageOffsets == {-1, 0, 5}

SearchQueries == {<<>>, <<"a">>, <<"b">>}

---------------------------------------------------------------------------
(* QueryBuilder: operations *)

\* mutant: the method ends without return this
appended_NoReturn(call) ==
    /\ calls' = Append(calls, call)
    /\ ret' = [kind |-> "undefined"]
    /\ UNCHANGED <<orderByClause, topLimit, skipOffset, searchQuery, latest>>
    /\ UNCHANGED <<errVars, httpVars, extraVars>>

\* the rest of a clause-appending call: the call is recorded, the builder itself is
\* returned, nothing else changes
appended(call) ==
    /\ calls' = Append(calls, call)
    /\ ret' = This
    /\ UNCHANGED <<orderByClause, topLimit, skipOffset, searchQuery, latest>>
    /\ UNCHANGED <<errVars, httpVars, extraVars>>

equals(field, value) ==
    /\ Len(filters) < MaxClauses
    /\ filters' = Append(filters, equalsClause(field, value))
    /\ appended([m |-> "equals", field |-> field, value |-> value])

notEquals(field, value) ==
    /\ Len(filters) < MaxClauses
    /\ filters' = Append(filters, notEqualsClause(field, value))
    /\ appended([m |-> "notEquals", field |-> field, value |-> value])

greaterThan(field, value) ==
    /\ Len(filters) < MaxClauses
    /\ filters' = Append(filters, greaterThanClause(field, value))
    /\ appended([m |-> "greaterThan", field |-> field, value |-> value])

greaterThanOrEqual(field, value) ==
    /\ Len(filters) < MaxClauses
    /\ filters' = Append(filters, greaterThanOrEqualClause(field, value))
    /\ appended([m |-> "greaterThanOrEqual", field |-> field, value |-> value])

lessThan(field, value) ==
    /\ Len(filters) < MaxClauses
    /\ filters' = Append(filters, lessThanClause(field, value))
    /\ appended([m |-> "lessThan", field |-> field, value |-> value])

lessThanOrEqual(field, value) ==
    /\ Len(filters) < MaxClauses
    /\ filters' = Append(filters, lessThanOrEqualClause(field, value))
    /\ appended([m |-> "lessThanOrEqual", field |-> field, value |-> value])

contains(field, value) ==
    /\ Len(filters) < MaxClauses
    /\ filters' = Append(filters, containsClause(field, value))
    /\ appended([m |-> "contains", field |-> field, value |-> value])

startsWith(field, value) ==
    /\ Len(filters) < MaxClauses
    /\ filters' = Append(filters, startsWithClause(field, value))
    /\ appended([m |-> "startsWith", field |-> field, value |-> value])

endsWith(field, value) ==
    /\ Len(filters) < MaxClauses
    /\ filters' = Append(filters, endsWithClause(field, value))
    /\ appended([m |-> "endsWith", field |-> field, value |-> value])

in(field, values) ==
    /\ Len(filters) < MaxClauses
    /\ filters' = Append(filters, inClause(field, values))
    /\ appended([m |-> "in", field |-> field, value |-> values])

raw(expression) ==
    /\ Len(filters) < MaxClauses
    /\ filters' = Append(filters, rawClause(expression))
    /\ appended([m |-> "raw", field |-> <<>>, value |-> expression])

\* mutant: a further sort term is added to the one already there
orderBy_Concatenated(field, direction) ==
    /\ orderByClause' =
            IF orderByClause.set
              THEN Some(orderByClause.v \o <<",">> \o orderByText(field, direction))
              ELSE Some(orderByText(field, direction))
    /\ latest' = [latest EXCEPT !.orderBy = Some(<<field, direction>>)]
    /\ ret' = This
    /\ UNCHANGED <<filters, topLimit, skipOffset, searchQuery, calls>>
    /\ UNCHANGED <<errVars, httpVars, extraVars>>

\* orderBy(field, direction) with the direction given
orderBy(field, direction) ==
    /\ orderByClause' = Some(orderByText(field, direction))
    /\ latest' = [latest EXCEPT !.orderBy = Some(<<field, direction>>)]
    /\ ret' = This
    /\ UNCHANGED <<filters, topLimit, skipOffset, searchQuery, calls>>
    /\ UNCHANGED <<errVars, httpVars, extraVars>>

\* orderBy(field): the direction parameter takes its default, 'asc'
orderByDefault(field) ==
    /\ orderByClause' = Some(orderByText(field, <<"a", "s", "c">>))
    /\ latest' = [latest EXCEPT !.orderBy = Some(<<field>>)]
    /\ ret' = This
    /\ UNCHANGED <<filters, topLimit, skipOffset, searchQuery, calls>>
    /\ UNCHANGED <<errVars, httpVars, extraVars>>

\* mutant: a page size that is not positive is ignored
top_Validated(limit) ==
    /\ topLimit' = IF limit > 0 THEN Some(limit) ELSE topLimit
    /\ latest' = [latest EXCEPT !.top = Some(limit)]
    /\ ret' = This
    /\ UNCHANGED <<filters, orderByClause, skipOffset, searchQuery, calls>>
    /\ UNCHANGED <<errVars, httpVars, extraVars>>

top(limit) ==
    /\ topLimit' = Some(limit)
    /\ latest' = [latest EXCEPT !.top = Some(limit)]
    /\ ret' = This
    /\ UNCHANGED <<filters, orderByClause, skipOffset, searchQuery, calls>>
    /\ UNCHANGED <<errVars, httpVars, extraVars>>

skip(offset) ==
    /\ skipOffset' = Some(offset)
    /\ latest' = [latest EXCEPT !.skip = Some(offset)]
    /\ ret' = This
    /\ UNCHANGED <<filters, orderByClause, topLimit, searchQuery, calls>>
    /\ UNCHANGED <<errVars, httpVars, extraVars>>

\* mutant: a new search text clears the page size
search_ResetsPaging(query) ==
    /\ searchQuery' = Some(query)
    /\ topLimit' = Undefined
    /\ latest' = [latest EXCEPT !.search = Some(query)]
    /\ ret' = This
    /\ UNCHANGED <<filters, orderByClause, skipOffset, calls>>
    /\ UNCHANGED <<errVars, httpVars, extraVars>>

search(query) ==
    /\ searchQuery' = Some(query)
    /\ latest' = [latest EXCEPT !.search = Some(query)]
    /\ ret' = This
    /\ UNCHANGED <<filters, orderByClause, topLimit, skipOffset, calls>>
    /\ UNCHANGED <<errVars, httpVars, extraVars>>

\* mutant: the builder is emptied once built
build_Resetting ==
    /\ ret' = [kind |-> "query", query |-> Built]
    /\ filters' = <<>>
    /\ orderByClause' = Undefined
    /\ topLimit' = Undefined
    /\ skipOffset' = Undefined
    /\ searchQuery' = Undefined
    /\ UNCHANGED <<calls, latest>>
    /\ UNCHANGED <<errVars, httpVars, extraVars>>

build ==
    /\ ret' = [kind |-> "query", query |-> Built]
    /\ UNCHANGED <<filters, orderByClause, topLimit, skipOffset, searchQuery>>
    /\ UNCHANGED <<calls, latest>>
    /\ UNCHANGED <<errVars, httpVars, extraVars>>

\* no orderBy, top, skip or search call made yet
NoSetterCalls ==
    [orderBy |-> Undefined, top |-> Undefined, skip |-> Undefined, search |-> Undefined]

\* the fields of a QueryBuilder right after construction, with an empty history
NewQueryBuilder ==
    [filters |-> <<>>, orderByClause |-> Undefined, topLimit |-> Undefined,
     skipOffset |-> Undefined, searchQuery |-> Undefined,
     calls |-> <<>>, latest |-> NoSetterCalls]

\* the fields and history of the QueryBuilder being called
Receiver ==
    [filters |-> filters, orderByClause |-> orderByClause, topLimit |-> topLimit,
     skipOffset |-> skipOffset, searchQuery |-> searchQuery,
     calls |-> calls, latest |-> latest]

\* what build() on a QueryBuilder with fields b returns
BuiltOf(b) == buildQuery(b.filters, b.orderByClause, b.topLimit, b.skipOffset, b.searchQuery)

\* mutant: the filters array is one array shared by the instances, so a new
\* instance starts with the clauses of the one before it
createQuery_SharedFilters ==
    /\ peer' = Receiver
    /\ filters' = filters
    /\ orderByClause' = NewQueryBuilder.orderByClause
    /\ topLimit' = NewQueryBuilder.topLimit
    /\ skipOffset' = NewQueryBuilder.skipOffset
    /\ searchQuery' = NewQueryBuilder.searchQuery
    /\ calls' = <<>>
    /\ latest' = NoSetterCalls
    /\ ret' = This
    /\ UNCHANGED <<errVars, httpVars, globalVars, clientVars>>

\* createQuery(): return new QueryBuilder(); the caller goes on with the new
\* instance and keeps the one it had aside
createQuery ==
    /\ peer' = Receiver
    /\ filters' = NewQueryBuilder.filters
    /\ orderByClause' = NewQueryBuilder.orderByClause
    /\ topLimit' = NewQueryBuilder.topLimit
    /\ skipOffset' = NewQueryBuilder.skipOffset
    /\ searchQuery' = NewQueryBuilder.searchQuery
    /\ calls' = <<>>
    /\ latest' = NoSetterCalls
    /\ ret' = This
    /\ UNCHANGED <<errVars, httpVars, globalVars, clientVars>>

\* the next method is called on the other instance: `this` is bound to it
callOther ==
    /\ peer' = Receiver
    /\ filters' = peer.filters
    /\ orderByClause' = peer.orderByClause
    /\ topLimit' = peer.topLimit
    /\ skipOffset' = peer.skipOffset
    /\ searchQuery' = peer.searchQuery
    /\ calls' = peer.calls
    /\ latest' = peer.latest
    /\ UNCHANGED <<ret, errVars, httpVars, globalVars, clientVars>>

BuilderInit ==
    /\ peer = NewQueryBuilder
    /\ filters = <<>>
    /\ orderByClause = Undefined
    /\ topLimit = Undefined
    /\ skipOffset = Undefined
    /\ searchQuery = Undefined
    /\ ret = This
    /\ calls = <<>>
    /\ latest = NoSetterCalls

BuilderNext ==
    \/ \E f \in Fields, v \in Values : equals(f, v)
    \/ \E f \in Fields, v \in Values : notEquals(f, v)
    \/ \E f \in Fields, n \in Numbers : greaterThan(f, Num(n))
    \/ \E f \in Fields, n \in Numbers : greaterThanOrEqual(f, Num(n))
    \/ \E f \in Fields, n \in Numbers : lessThan(f, Num(n))
    \/ \E f \in Fields, n \in Numbers : lessThanOrEqual(f, Num(n))
    \/ \E f \in Fields, s \in Strings : contains(f, Str(s))
    \/ \E f \in Fields, s \in Strings : startsWith(f, Str(s))
    \/ \E f \in Fields, s \in Strings : endsWith(f, Str(s))
    \/ \E f \in Fields, vs \in InLists : in(f, vs)
    \/ \E e \in RawExpressions : raw(e)
    \/ \E f \in Fields, d \in Directions : orderBy(f, d)
    \/ \E f \in Fields : orderByDefault(f)
    \/ \E n \in Limits : top(n)
    \/ \E n \in Offsets : skip(n)
    \/ \E q \in SearchTerms : search(q)
    \/ build


---------------------------------------------------------------------------
(* JavaScript values met by the error handler *)

\* a property an object does not have
Absent == [t |-> "absent"]

JsUndefined == [t |-> "undefined"]

JsNull == [t |-> "null"]

\* a response body or details object, by the properties the handler reads
Obj(message, err, details) ==
    [t |-> "object", message |-> message, error |-> err, details |-> details]

Arr(items) == [t |-> "array", items |-> items]

\* !x
falsy(x) ==
    \/ x.t \in {"absent", "undefined", "null"}
    \/ x.t = "string" /\ Len(x.s) = 0
    \/ x.t = "number" /\ x.n = 0
    \/ x.t = "boolean" /\ ~x.b

\* error.response of an AxiosError that has one
Response(status, data) == [t |-> "response", status |-> status, data |-> data]

\* an AxiosError: isAxiosError is true, response is Absent or a Response
AxiosError(id, message, code, request, response) ==
    [t |-> "axios", id |-> id, message |-> message, code |-> code,
     request |-> request, response |-> response]

\* an Error that is neither an AxiosError nor a SquidexError
PlainError(id, name, message) ==
    [t |-> "error", id |-> id, name |-> name, message |-> message]

CannotReadProperties ==
    <<"C", "a", "n", "n", "o", "t", " ", "r", "e", "a", "d", " ", "p", "r", "o", "p", "e", "r", "t", "i", "e", "s">>

\* what reading a property of null or undefined throws
TypeError == PlainError(0, "TypeError", CannotReadProperties)

Threw(x) == [how |-> "threw", value |-> x]

Returned(x) == [how |-> "returned", value |-> x]

\* the identity of an object allocated while handling e
NewId(e) == IF e.t \in {"axios", "squidex", "error"} THEN e.id + 1 ELSE 1

---------------------------------------------------------------------------
(* src/src/types/error.ts *)

SquidexError(id, message, statusCode, details, retryable) ==
    [t |-> "squidex", id |-> id, name |-> "SquidexError", message |-> message,
     statusCode |-> statusCode, details |-> details, retryable |-> retryable]

SquidexAuthError(id, message, details) ==
    [SquidexError(id, message, Some(401), details, FALSE) EXCEPT !.name = "SquidexAuthError"]

SquidexNotFoundError(id, message, details) ==
    [SquidexError(id, message, Some(404), details, FALSE) EXCEPT !.name = "SquidexNotFoundError"]

SquidexValidationError(id, message, details) ==
    [SquidexError(id, message, Some(400), details, FALSE) EXCEPT !.name = "SquidexValidationError"]

\* mutant: the rate-limit error built with retryable = false
SquidexRateLimitError_NotRetryable(id, message, details) ==
    [SquidexError(id, message, Some(429), details, FALSE) EXCEPT !.name = "SquidexRateLimitError"]

SquidexRateLimitError(id, message, details) ==
    [SquidexError(id, message, Some(429), details, TRUE) EXCEPT !.name = "SquidexRateLimitError"]

SquidexNetworkError(id, message, details) ==
    [SquidexError(id, message, Undefined, details, TRUE) EXCEPT !.name = "SquidexNetworkError"]

\* x instanceof SquidexError
instanceofSquidexError(x) == x.t = "squidex"

\* x instanceof Error
instanceofError(x) == x.t \in {"axios", "squidex", "error"}

---------------------------------------------------------------------------
(* src/src/utils/error-handler.ts *)

AuthenticationFailed ==
    <<"A", "u", "t", "h", "e", "n", "t", "i", "c", "a", "t", "i", "o", "n", " ", "f", "a", "i", "l", "e", "d">>

ResourceNotFound ==
    <<"R", "e", "s", "o", "u", "r", "c", "e", " ", "n", "o", "t", " ", "f", "o", "u", "n", "d">>

ValidationError ==
    <<"V", "a", "l", "i", "d", "a", "t", "i", "o", "n", " ", "e", "r", "r", "o", "r">>

RateLimitExceeded ==
    <<"R", "a", "t", "e", " ", "l", "i", "m", "i", "t", " ", "e", "x", "c", "e", "e", "d", "e", "d">>

ServerError ==
    <<"S", "e", "r", "v", "e", "r", " ", "e", "r", "r", "o", "r">>

UnknownError ==
    <<"U", "n", "k", "n", "o", "w", "n", " ", "e", "r", "r", "o", "r">>

NoResponseFromServer ==
    <<"N", "e", "t", "w", "o", "r", "k", " ", "e", "r", "r", "o", "r", ":", " ", "N", "o", " ", "r", "e", "s", "p", "o", "n", "s", "e", " ", "f", "r", "o", "m", " ", "s", "e", "r", "v", "e", "r">>

UnknownErrorOccurred ==
    <<"U", "n", "k", "n", "o", "w", "n", " ", "e", "r", "r", "o", "r", " ", "o", "c", "c", "u", "r", "r", "e", "d">>

ObjectObject ==
    <<"[", "o", "b", "j", "e", "c", "t", " ", "O", "b", "j", "e", "c", "t", "]">>

\* String(d) for an element of a details array
stringOf(d) ==
    CASE d.t = "string" -> d.s
      [] d.t = "number" -> NumberToString(d.n)
      [] d.t = "boolean" -> toText(d)
      [] d.t = "null" -> <<"n", "u", "l", "l">>
      [] d.t = "undefined" -> <<"u", "n", "d", "e", "f", "i", "n", "e", "d">>
      [] d.t = "object" -> ObjectObject

\* typeof value === 'object' && value !== null
isErrorDetails(value) == value.t \in {"object", "array"}

\* 'p' in x && typeof x.p === 'string', for p = message
hasStringMessage(x) == x.t = "object" /\ x.message.t = "string"

toErrorDetails(data) ==
    IF falsy(data) THEN Undefined
    ELSE IF data.t = "string" THEN Some([t |-> "object", message |-> data])
    ELSE IF data.t \in {"object", "array", "axios", "squidex", "error"} THEN Some(data)
    ELSE Undefined

detailText(d) ==
    IF d.t = "string" THEN d.s
    ELSE IF hasStringMessage(d) THEN d.message.s
    ELSE stringOf(d)

\* mutant: the error field looked at before the message field
extractErrorMessage_ErrorFirst(data) ==
    IF falsy(data) THEN JsUndefined
    ELSE IF data.t = "string" THEN data
    ELSE IF data.t # "object" THEN JsUndefined
    ELSE IF data.error.t = "string" THEN data.error
    ELSE IF hasStringMessage(data.error) THEN data.error.message
    ELSE IF data.message.t = "string" THEN data.message
    ELSE IF data.details.t = "array" THEN
        Str(join([i \in 1..Len(data.details.items) |-> detailText(data.details.items[i])],
                 <<",", " ">>))
    ELSE JsUndefined

\* a string (Str) or JsUndefined
extractErrorMessage(data) ==
    IF falsy(data) THEN JsUndefined
    ELSE IF data.t = "string" THEN data
    ELSE IF data.t # "object" THEN JsUndefined
    ELSE IF data.message.t = "string" THEN data.message
    ELSE IF data.error.t = "string" THEN data.error
    ELSE IF hasStringMessage(data.error) THEN data.error.message
    ELSE IF data.details.t = "array" THEN
        Str(join([i \in 1..Len(data.details.items) |-> detailText(data.details.items[i])],
                 <<",", " ">>))
    ELSE JsUndefined

\* (error as AxiosError).isAxiosError === true; reading the property throws for
\* null and undefined
isAxiosErrorThrows(e) == e.t \in {"null", "undefined"}

isAxiosError(e) == e.t = "axios"

\* a || b for strings
orElse(a, b) == IF falsy(a) THEN b ELSE a

\* error.response?.status: Some(status) or Undefined
responseStatus(e) == IF e.response.t = "absent" THEN Undefined ELSE Some(e.response.status)

\* error.response?.data
responseData(e) == IF e.response.t = "absent" THEN JsUndefined ELSE e.response.data

\* mutant: the default branch taken for server statuses only
truthyStatus_ServerOnly(statusCode) == statusCode.set /\ statusCode.v >= 500

\* if (statusCode): undefined and 0 are falsy
truthyStatus(statusCode) == statusCode.set /\ statusCode.v # 0

\* mutant: the instanceof SquidexError test left out, every error wrapped
rethrowOrWrap_AlwaysWrap(e) ==
    Threw(SquidexError(NewId(e),
                       IF instanceofError(e) THEN e.message ELSE UnknownErrorOccurred,
                       Undefined, toErrorDetails(e), FALSE))

\* lines 81-91: what is thrown once the Axios branch has thrown nothing
rethrowOrWrap(e) ==
    IF instanceofSquidexError(e) THEN Threw(e)
    ELSE Threw(SquidexError(NewId(e),
                            IF instanceofError(e) THEN e.message ELSE UnknownErrorOccurred,
                            Undefined, toErrorDetails(e), FALSE))

\* lines 17-79: the Axios branch
handleAxiosError(e) ==
    LET statusCode == responseStatus(e)
        data == responseData(e)
        errorDetails == toErrorDetails(data)
        message == orElse(extractErrorMessage(data), Str(e.message))
        msg(default) == orElse(message, Str(default)).s
        status == IF statusCode.set THEN statusCode.v ELSE -1
    IN  CASE status \in {401, 403} ->
                Threw(SquidexAuthError(NewId(e), msg(AuthenticationFailed), errorDetails))
          [] status = 404 ->
                Threw(SquidexNotFoundError(NewId(e), msg(ResourceNotFound), errorDetails))
          [] status = 400 ->
                Threw(SquidexValidationError(NewId(e), msg(ValidationError), errorDetails))
          [] status = 429 ->
                Threw(SquidexRateLimitError(NewId(e), msg(RateLimitExceeded), errorDetails))
          [] status \in {500, 502, 503, 504} ->
                Threw(SquidexError(NewId(e), msg(ServerError), statusCode, errorDetails, TRUE))
          [] OTHER ->
                IF truthyStatus(statusCode)
                THEN Threw(SquidexError(NewId(e), msg(UnknownError), statusCode,
                                        errorDetails, FALSE))
                ELSE IF e.request /\ e.response.t = "absent"
                THEN Threw(SquidexNetworkError(NewId(e), NoResponseFromServer,
                        Some([t |-> "object", message |-> Str(e.message),
                              code |-> orElse(e.code, Str(<<>>))])))
                ELSE rethrowOrWrap(e)

handleSquidexError(e) ==
    IF isAxiosErrorThrows(e) THEN Threw(TypeError)
    ELSE IF isAxiosError(e) THEN handleAxiosError(e)
    ELSE rethrowOrWrap(e)

isRetryableError(e) ==
    IF instanceofSquidexError(e) THEN Returned(e.retryable)
    ELSE IF isAxiosErrorThrows(e) THEN Threw(TypeError)
    ELSE IF isAxiosError(e) THEN
        LET statusCode == responseStatus(e)
        IN  Returned(\/ ~truthyStatus(statusCode)
                     \/ statusCode.v = 429
                     \/ statusCode.v >= 500)
    ELSE Returned(FALSE)

---------------------------------------------------------------------------
(* Inputs of the error handler *)

Statuses == {400, 401, 403, 404, 409, 418, 429, 500, 501, 502, 503, 504, 505}

Messages == {<<>>, <<"m">>}

Bodies ==
    {JsUndefined, JsNull, Str(<<>>), Str(<<"b">>), Num(7),
     Obj(Absent, Absent, Absent),
     Obj(Str(<<"m">>), Str(<<"e">>), Absent),
     Obj(Num(7), Str(<<"e">>), Absent),
     Obj(Absent, Obj(Str(<<"n">>), Absent, Absent), Absent),
     Obj(Absent, Absent, Arr(<<Str(<<"d">>), Obj(Str(<<"m">>), Absent, Absent), Num(7)>>)),
     Obj(Absent, Absent, Arr(<<>>)),
     Obj(Str(<<>>), Str(<<"e">>), Absent),
     Obj(Absent, Obj(Absent, Absent, Absent), Arr(<<Str(<<"d">>)>>))}

Responses == {Absent} \cup {Response(s, d) : s \in Statuses, d \in Bodies}

AxiosErrors ==
    {AxiosError(1, m, c, rq, rs) :
        m \in Messages, c \in {Absent, Str(<<"E">>)}, rq \in BOOLEAN, rs \in Responses}

DetailsGiven == {Undefined, Some(Obj(Str(<<"m">>), Absent, Absent))}

SquidexErrors ==
    UNION {{SquidexError(1, m, Undefined, d, FALSE), SquidexError(1, m, Some(409), d, FALSE),
            SquidexError(1, m, Some(503), d, TRUE),
            SquidexAuthError(1, m, d), SquidexNotFoundError(1, m, d),
            SquidexValidationError(1, m, d), SquidexRateLimitError(1, m, d),
            SquidexNetworkError(1, m, d)} : m \in Messages, d \in DetailsGiven}

OtherValues ==
    {PlainError(1, "Error", m) : m \in Messages}
        \cup {JsNull, JsUndefined, Str(<<>>), Str(<<"s">>), Num(0), Num(7),
              Obj(Absent, Absent, Absent)}

ErrorInputs == AxiosErrors \cup SquidexErrors \cup OtherValues

---------------------------------------------------------------------------
(* Calls of the error handler *)

NoCall == [how |-> "none"]

\* handleSquidexError(error)
callHandleSquidexError ==
    /\ op = "none"
    /\ op' = "handleSquidexError"
    /\ result' = handleSquidexError(error)
    /\ UNCHANGED <<error, builderVars, httpVars, extraVars>>

\* a caller catches what handleSquidexError threw and hands it to the handler again
rehandle ==
    /\ op = "handleSquidexError"
    /\ result.how = "threw"
    /\ error' = result.value
    /\ result' = handleSquidexError(result.value)
    /\ UNCHANGED <<op, builderVars, httpVars, extraVars>>

\* isRetryableError(error)
callIsRetryableError ==
    /\ op = "none"
    /\ op' = "isRetryableError"
    /\ result' = isRetryableError(error)
    /\ UNCHANGED <<error, builderVars, httpVars, extraVars>>

ErrIdle ==
    /\ op = "none"
    /\ error = JsUndefined
    /\ result = NoCall

\* some value is about to be handed to the error handler
ErrInit ==
    /\ op = "none"
    /\ error \in ErrorInputs
    /\ result = NoCall

ErrNext ==
    \/ callHandleSquidexError
    \/ rehandle
    \/ callIsRetryableError

---------------------------------------------------------------------------
(* src/src/client/http-client.ts *)

DefaultRetries == 3

DefaultRetryDelay == 1000

\* x || d for an optional number: undefined and 0 are falsy
numberOr(x, d) == IF x.set /\ x.v # 0 THEN x.v ELSE d

\* retries: config.retries || 3
retries(cfg) == numberOr(cfg.retries, DefaultRetries)

\* mutant: the exponent not reduced by one
retryDelay_ExponentOffByOne(cfg, count) ==
    LET delay == numberOr(cfg.retryDelay, DefaultRetryDelay)
    IN  delay * 2^count

\* retryDelay: (retryCount) => (config.retryDelay || 1000) * Math.pow(2, retryCount - 1)
retryDelay(cfg, count) ==
    LET delay == numberOr(cfg.retryDelay, DefaultRetryDelay)
    IN  delay * 2^(count - 1)

\* mutant: every failure retried
retryCondition_Always(e) == TRUE

\* retryCondition: (error) => isRetryableError(error)
retryCondition(e) == isRetryableError(e).value

\* mutant: the retry counter is not compared with the maximum
shouldRetry_Unlimited(cfg, count, e) == retryCondition(e)

\* axios-retry retries while retryCount < retries and retryCondition(error)
shouldRetry(cfg, count, e) == count < retries(cfg) /\ retryCondition(e)

MaxConfigured == 2

RetriesOptions == {Undefined} \cup {Some(n) : n \in 0..MaxConfigured}

RetryDelayOptions == {Undefined, Some(0), Some(50), Some(1000)}

Configs == {[retries |-> r, retryDelay |-> d] : r \in RetriesOptions, d \in RetryDelayOptions}

\* the failures an attempt can end with
HttpFailures ==
    {AxiosError(1, <<"m">>, Absent, TRUE, Response(st, d)) :
        st \in {400, 401, 403, 404, 409, 429, 500, 501, 503},
        d \in {JsUndefined, Obj(Str(<<"m">>), Absent, Absent)}}
      \cup {AxiosError(1, <<"m">>, Str(<<"E">>), rq, Absent) : rq \in BOOLEAN}

NoFailure == JsUndefined

ResponseData == [t |-> "object", items |-> <<>>]

\* get / post / put / patch / delete: the first attempt of a request is sent
request ==
    /\ pc \in {"idle", "resolved", "rejected"}
    /\ pc' = "sending"
    /\ attempts' = 1
    /\ retryCount' = 0
    /\ failure' = NoFailure
    /\ delays' = <<>>
    /\ level' = 0
    /\ inflight' = NoFailure
    /\ settled' = NoCall
    /\ UNCHANGED <<config, builderVars, errVars, extraVars>>

\* the attempt in flight succeeds: every chain's (response) => response passes it on
respond ==
    /\ pc = "sending"
    /\ pc' = "resolved"
    /\ settled' = Returned(ResponseData)
    /\ level' = 0
    /\ UNCHANGED <<config, attempts, retryCount, failure, delays, inflight,
                   builderVars, errVars, extraVars>>

\* the attempt in flight fails: axios-retry's interceptor receives the raw failure
fail(f) ==
    /\ pc = "sending"
    /\ pc' = "failed"
    /\ failure' = f
    /\ UNCHANGED <<config, attempts, retryCount, delays, level, inflight, settled,
                   builderVars, errVars, extraVars>>

\* axios-retry decides to retry: it counts the retry and starts the delay
retry ==
    /\ pc = "failed"
    /\ shouldRetry(config, retryCount, failure)
    /\ retryCount' = retryCount + 1
    /\ delays' = Append(delays, retryDelay(config, retryCount + 1))
    /\ level' = level + 1
    /\ pc' = "waiting"
    /\ UNCHANGED <<config, attempts, failure, inflight, settled, builderVars, errVars, extraVars>>

\* the delay has passed: the request is sent again through the same instance
resend ==
    /\ pc = "waiting"
    /\ pc' = "sending"
    /\ attempts' = attempts + 1
    /\ UNCHANGED <<config, retryCount, failure, delays, level, inflight, settled,
                   builderVars, errVars, extraVars>>

\* axios-retry does not retry: it rejects with the raw failure
giveUp ==
    /\ pc = "failed"
    /\ ~shouldRetry(config, retryCount, failure)
    /\ inflight' = failure
    /\ pc' = "intercepting"
    /\ UNCHANGED <<config, attempts, retryCount, failure, delays, level, settled,
                   builderVars, errVars, extraVars>>

\* mutant: an error that is already a SquidexError is wrapped once more
errorInterceptor_Rewrapping ==
    /\ pc = "intercepting"
    /\ LET thrown == IF inflight.t = "squidex"
                       THEN rethrowOrWrap_AlwaysWrap(inflight).value
                       ELSE handleSquidexError(inflight).value
       IN  /\ inflight' = thrown
           /\ IF level > 0
              THEN /\ level' = level - 1
                   /\ UNCHANGED <<pc, settled>>
              ELSE /\ pc' = "rejected"
                   /\ settled' = Threw(thrown)
                   /\ UNCHANGED level
    /\ UNCHANGED <<config, attempts, retryCount, failure, delays, builderVars, errVars, extraVars>>

\* the error interceptor: (error) => { handleSquidexError(error); }.  What it throws
\* rejects this chain's request; an enclosing chain, whose retry this request was,
\* passes the rejection to its own error interceptor.
errorInterceptor ==
    /\ pc = "intercepting"
    /\ LET thrown == handleSquidexError(inflight).value
       IN  /\ inflight' = thrown
           /\ IF level > 0
              THEN /\ level' = level - 1
                   /\ UNCHANGED <<pc, settled>>
              ELSE /\ pc' = "rejected"
                   /\ settled' = Threw(thrown)
                   /\ UNCHANGED level
    /\ UNCHANGED <<config, attempts, retryCount, failure, delays, builderVars, errVars, extraVars>>

HttpIdle ==
    /\ pc = "idle"
    /\ attempts = 0
    /\ retryCount = 0
    /\ failure = NoFailure
    /\ delays = <<>>
    /\ level = 0
    /\ inflight = NoFailure
    /\ settled = NoCall

HttpNext ==
    \/ request
    \/ respond
    \/ \E f \in HttpFailures : fail(f)
    \/ retry
    \/ resend
    \/ giveUp
    \/ errorInterceptor

---------------------------------------------------------------------------
(* src/src/global-config.ts *)

MaxClients == 3

\* new SquidexClient(config): the id stands for the identity of the instance
SquidexClient(id, cfg) == [t |-> "client", id |-> id, config |-> cfg]

NotConfigured ==
    <<"S", "q", "u", "i", "d", "e", "x", " ", "c", "l", "i", "e", "n", "t", " ", "n", "o", "t", " ", "c", "o", "n", "f", "i", "g", "u", "r", "e", "d", ".", " ", "C", "a", "l", "l", " ", "c", "o", "n", "f", "i", "g", "u", "r", "e", "(", ")", " ", "w", "i", "t", "h", " ", "y", "o", "u", "r", " ", "c", "o", "n", "f", "i", "g", "u", "r", "a", "t", "i", "o", "n", " ", "b", "e", "f", "o", "r", "e", " ", "u", "s", "i", "n", "g", " ", "S", "q", "u", "i", "d", "e", "x", " ", "f", "u", "n", "c", "t", "i", "o", "n", "s", ".">>

\* nothing called yet: no configure, no resetConfiguration, no client handed out
NoSetup == [call |-> "none", got |-> Absent]

\* mutant: a client is created only when there is none yet
configure_OnlyOnce(cfg) ==
    /\ created < MaxClients
    /\ created' = created + 1
    /\ globalClient' =
            IF globalClient = JsNull THEN SquidexClient(created + 1, cfg) ELSE globalClient
    /\ answer' = [op |-> "configure", how |-> "returned", value |-> JsUndefined]
    /\ setup' = [call |-> "configure", client |-> SquidexClient(created + 1, cfg),
                 got |-> Absent]
    /\ UNCHANGED <<builderVars, errVars, httpVars, peer, clientVars>>

configure(cfg) ==
    /\ created < MaxClients
    /\ created' = created + 1
    /\ globalClient' = SquidexClient(created + 1, cfg)
    /\ answer' = [op |-> "configure", how |-> "returned", value |-> JsUndefined]
    /\ setup' = [call |-> "configure", client |-> SquidexClient(created + 1, cfg),
                 got |-> Absent]
    /\ UNCHANGED <<builderVars, errVars, httpVars, peer, clientVars>>

getClient ==
    /\ answer' =
            IF globalClient = JsNull
            THEN [op |-> "getClient", how |-> "threw",
                  value |-> PlainError(0, "Error", NotConfigured)]
            ELSE [op |-> "getClient", how |-> "returned", value |-> globalClient]
    /\ setup' = IF globalClient = JsNull THEN setup ELSE [setup EXCEPT !.got = globalClient]
    /\ UNCHANGED <<globalClient, created>>
    /\ UNCHANGED <<builderVars, errVars, httpVars, peer, clientVars>>

resetConfiguration ==
    /\ globalClient' = JsNull
    /\ answer' = [op |-> "resetConfiguration", how |-> "returned", value |-> JsUndefined]
    /\ setup' = [call |-> "resetConfiguration", got |-> Absent]
    /\ UNCHANGED created
    /\ UNCHANGED <<builderVars, errVars, httpVars, peer, clientVars>>

isConfigured ==
    /\ answer' = [op |-> "isConfigured", how |-> "returned",
                  value |-> Bool(globalClient # JsNull)]
    /\ UNCHANGED <<globalClient, created, setup>>
    /\ UNCHANGED <<builderVars, errVars, httpVars, peer, clientVars>>

\* the module as loaded: no client, nothing called
GlobalIdle ==
    /\ globalClient = JsNull
    /\ created = 0
    /\ answer = [op |-> "none"]
    /\ setup = NoSetup

GlobalNext ==
    \/ \E cfg \in Configs : configure(cfg)
    \/ getClient
    \/ resetConfiguration
    \/ isConfigured

---------------------------------------------------------------------------
(* src/src/client/squidex-client.ts: the configuration a client keeps *)

DefaultTimeout == 30000

\* a headers object with no entries
NoHeaders == [n \in {} |-> <<>>]

HeaderNames == {"X-A", "X-B"}

HeaderValues == {<<"1">>, <<"2">>}

Timeouts == {Undefined, Some(30000)}

WrittenTimeouts == {60000}

\* the headers objects a configuration is given with
HeaderMaps == {NoHeaders} \cup {[n \in {"X-A"} |-> v] : v \in HeaderValues}

\* the configurations a client is constructed with: headers is left out or refers
\* to a headers object
ClientConfigs ==
    {[timeout |-> t, headers |-> h] : t \in Timeouts, h \in {Absent, [t |-> "ref"]}}

\* obj[name] = value on a headers object
withHeader(map, name, value) ==
    [n \in DOMAIN map \cup {name} |-> IF n = name THEN value ELSE map[n]]

\* a configuration object with what it refers to read out
Contents(obj, map) ==
    [timeout |-> obj.timeout,
     headers |-> IF obj.headers = Absent THEN Absent ELSE [t |-> "map", entries |-> map]]

\* { 'Content-Type': 'application/json', ...config.headers }
axiosHeaders(obj, map) ==
    IF obj.headers = Absent
    THEN withHeader(NoHeaders, "Content-Type", <<"j", "s", "o", "n">>)
    ELSE [n \in DOMAIN map \cup {"Content-Type"} |->
            IF n \in DOMAIN map THEN map[n] ELSE <<"j", "s", "o", "n">>]

\* new SquidexClient(config): this.config = config; new HttpClient(config)
ClientConstructed(obj, map) ==
    /\ clientConfig = obj
    /\ headersMap = map
    /\ copy = Absent
    /\ axiosDefaults = [timeout |-> numberOr(obj.timeout, DefaultTimeout),
                        headers |-> axiosHeaders(obj, map)]
    /\ constructedWith = Contents(obj, map)

\* getConfig(): return { ...this.config }
getConfig ==
    /\ copy' = [timeout |-> clientConfig.timeout, headers |-> clientConfig.headers]
    /\ UNCHANGED <<clientConfig, headersMap, axiosDefaults, constructedWith>>
    /\ UNCHANGED <<builderVars, errVars, httpVars, peer, globalVars>>

\* storedConfig.timeout = value, on the object getConfig returned
writeTimeout(value) ==
    /\ copy # Absent
    /\ copy' = [copy EXCEPT !.timeout = Some(value)]
    /\ UNCHANGED <<clientConfig, headersMap, axiosDefaults, constructedWith>>
    /\ UNCHANGED <<builderVars, errVars, httpVars, peer, globalVars>>

\* storedConfig.headers[name] = value, on the object getConfig returned: its headers
\* field refers to the headers object the client's configuration refers to
writeHeader(name, value) ==
    /\ copy # Absent
    /\ copy.headers = [t |-> "ref"]
    /\ headersMap' = withHeader(headersMap, name, value)
    /\ UNCHANGED <<clientConfig, copy, axiosDefaults, constructedWith>>
    /\ UNCHANGED <<builderVars, errVars, httpVars, peer, globalVars>>

\* storedConfig.headers = {}, on the object getConfig returned
replaceHeaders ==
    /\ copy # Absent
    /\ copy.headers # [t |-> "own"]
    /\ copy' = [copy EXCEPT !.headers = [t |-> "own"]]
    /\ UNCHANGED <<clientConfig, headersMap, axiosDefaults, constructedWith>>
    /\ UNCHANGED <<builderVars, errVars, httpVars, peer, globalVars>>

\* a client constructed with a configuration that leaves every option out
ClientIdle == ClientConstructed([timeout |-> Undefined, headers |-> Absent], NoHeaders)

ClientInit ==
    \E obj \in ClientConfigs, map \in HeaderMaps :
        /\ obj.headers = Absent => map = NoHeaders
        /\ ClientConstructed(obj, map)

ClientNext ==
    \/ getConfig
    \/ \E v \in WrittenTimeouts : writeTimeout(v)
    \/ \E n \in HeaderNames, v \in HeaderValues : writeHeader(n, v)
    \/ replaceHeaders

---------------------------------------------------------------------------
(* Specifications *)

NoConfig == [retries |-> Undefined, retryDelay |-> Undefined]

\* one QueryBuilder, from its construction
Init ==
    /\ filters = <<>>
    /\ orderByClause = Undefined
    /\ topLimit = Undefined
    /\ skipOffset = Undefined
    /\ searchQuery = Undefined
    /\ ret = This
    /\ calls = <<>>
    /\ latest = NoSetterCalls
    /\ peer = NewQueryBuilder
    /\ ErrIdle
    /\ config = NoConfig
    /\ HttpIdle
    /\ GlobalIdle
    /\ ClientIdle

Next == BuilderNext

Spec == Init /\ [][Next]_vars

\* one QueryBuilder whose settings are called with many arguments and whose
\* clauses with few
SettingsNext ==
    \/ \E f \in Fields, x \in Strings : equals(f, Str(x))
    \/ \E e \in RawExpressions \ {<<>>} : raw(e)
    \/ \E f \in OrderFields, d \in Directions : orderBy(f, d)
    \/ \E f \in OrderFields : orderByDefault(f)
    \/ \E n \in PageSizes : top(n)
    \/ \E n \in PageOffsets : skip(n)
    \/ \E q \in SearchQueries : search(q)
    \/ build

SpecSettings == Init /\ [][SettingsNext]_vars

\* two QueryBuilder instances, from their construction, called in any interleaving
TwoBuildersNext ==
    \/ \E f \in Fields, x \in Strings : equals(f, Str(x))
    \/ \E e \in RawExpressions \ {<<>>} : raw(e)
    \/ \E n \in Limits : top(n)
    \/ \E f \in Fields, d \in Directions : orderBy(f, d)
    \/ \E q \in SearchTerms : search(q)
    \/ build
    \/ createQuery
    \/ callOther

SpecTwoBuilders == Init /\ [][TwoBuildersNext]_vars

\* the error handler, called with any value
InitErr ==
    /\ BuilderInit
    /\ ErrInit
    /\ config = NoConfig
    /\ HttpIdle
    /\ GlobalIdle
    /\ ClientIdle

SpecErr == InitErr /\ [][ErrNext]_vars

\* one HttpClient, from its construction with any configuration
InitHttp ==
    /\ BuilderInit
    /\ ErrIdle
    /\ config \in Configs
    /\ HttpIdle
    /\ GlobalIdle
    /\ ClientIdle

SpecHttp == InitHttp /\ [][HttpNext]_vars

\* the same, where every attempt in flight ends, with a response or with a failure,
\* the retry delay passes, and axios-retry and the interceptors, which run without
\* waiting for anything, take their steps
HttpFairness ==
    /\ WF_vars(respond \/ \E f \in HttpFailures : fail(f))
    /\ WF_vars(retry)
    /\ WF_vars(resend)
    /\ WF_vars(giveUp)
    /\ WF_vars(errorInterceptor)

SpecHttpFair == InitHttp /\ [][HttpNext]_vars /\ HttpFairness

\* the global client, from the loading of the module
InitGlobal ==
    /\ BuilderInit
    /\ ErrIdle
    /\ config = NoConfig
    /\ HttpIdle
    /\ GlobalIdle
    /\ ClientIdle

SpecGlobal == InitGlobal /\ [][GlobalNext]_vars

\* one SquidexClient, from its construction with any configuration
InitClient ==
    /\ BuilderInit
    /\ ErrIdle
    /\ config = NoConfig
    /\ HttpIdle
    /\ GlobalIdle
    /\ ClientInit

SpecClient == InitClient /\ [][ClientNext]_vars

---------------------------------------------------------------------------
(* Properties of QueryBuilder, checked under Spec *)

\* the clauses cs[1..n] written one after the other, ' and ' between neighbours
RECURSIVE JoinedInOrder(_, _)
JoinedInOrder(cs, n) ==
    IF n = 1 THEN cs[1]
    ELSE JoinedInOrder(cs, n - 1) \o <<" ", "a", "n", "d", " ">> \o cs[n]

HasKey(q, k) == k \in DOMAIN q

\* C1: whenever build() has just returned, the object has no $filter key if no
\* clause-appending call was made, and otherwise its $filter is the rendered forms
\* of exactly the calls made, in call order, joined by ' and ' (a single clause
\* stands alone).
C1_FilterJoinsClausesInCallOrder ==
    ret.kind = "query" =>
        IF Len(calls) = 0
        THEN ~HasKey(ret.query, "$filter")
        ELSE /\ HasKey(ret.query, "$filter")
             /\ ret.query["$filter"] =
                    JoinedInOrder([i \in 1..Len(calls) |-> Rendered(calls[i])], Len(calls))

\* build() returned after two different clause-appending calls
C1_Witness ==
    /\ ret.kind = "query"
    /\ Len(calls) = 2
    /\ calls[1].m = "equals"
    /\ calls[2].m = "contains"
    /\ HasKey(ret.query, "$filter")

\* C10: whenever build() has just returned, the object has a $search key holding the
\* argument of the latest search call if search was ever called (the empty string
\* included), and no $search key only if search was never called.
C10_SearchKeyWheneverSearchCalled ==
    ret.kind = "query" =>
        IF searchQuery.set
        THEN HasKey(ret.query, "$search") /\ ret.query["$search"] = searchQuery.v
        ELSE ~HasKey(ret.query, "$search")

---------------------------------------------------------------------------
(* Properties of the error handler, checked under SpecErr *)

\* handleSquidexError was called with a transport failure that has a response
HandledWithStatus ==
    /\ op = "handleSquidexError"
    /\ error.t = "axios"
    /\ error.response.t = "response"

Classified(kind, retryable) ==
    /\ result.how = "threw"
    /\ result.value.t = "squidex"
    /\ result.value.name = kind
    /\ result.value.retryable = retryable

\* C2: a transport failure with status 401 or 403 is raised as SquidexAuthError, 404
\* as SquidexNotFoundError, 400 as SquidexValidationError, all not retryable; 429 as
\* SquidexRateLimitError and 500, 502, 503, 504 as a base SquidexError, all
\* retryable; whatever the response body is.
C2_StatusTable ==
    HandledWithStatus =>
        LET status == error.response.status
        IN  /\ status \in {401, 403} => Classified("SquidexAuthError", FALSE)
            /\ status = 404 => Classified("SquidexNotFoundError", FALSE)
            /\ status = 400 => Classified("SquidexValidationError", FALSE)
            /\ status = 429 => Classified("SquidexRateLimitError", TRUE)
            /\ status \in {500, 502, 503, 504} => Classified("SquidexError", TRUE)

\* a 429 with a response body of its own was classified
C2_Witness ==
    /\ HandledWithStatus
    /\ error.response.status = 429
    /\ error.response.data.t = "object"
    /\ Classified("SquidexRateLimitError", TRUE)

\* C3: every transport failure without a response status is raised as
\* SquidexNetworkError, retryable, with no status code.
C3_NoStatusIsNetwork ==
    (op = "handleSquidexError" /\ error.t = "axios" /\ error.response.t = "absent") =>
        /\ Classified("SquidexNetworkError", TRUE)
        /\ ~result.value.statusCode.set

\* C4: a transport failure whose status is none of 400, 401, 403, 404, 429, 500, 502,
\* 503, 504 is raised as a base SquidexError carrying that status, not retryable.
C4_OtherStatusUnclassified ==
    (HandledWithStatus
        /\ error.response.status \notin {400, 401, 403, 404, 429, 500, 502, 503, 504}) =>
            /\ Classified("SquidexError", FALSE)
            /\ result.value.statusCode = Some(error.response.status)

\* a 501 was classified
C4_Witness ==
    /\ HandledWithStatus
    /\ error.response.status = 501
    /\ Classified("SquidexError", FALSE)

\* C5: whatever value handleSquidexError is called with, it throws, and what it
\* throws is a SquidexError.
C5_AlwaysThrowsSquidexError ==
    op = "handleSquidexError" =>
        result.how = "threw" /\ instanceofSquidexError(result.value)

\* C6: called with a SquidexError, handleSquidexError throws that same object, with
\* every field as it was; so handing the handler its own output gives it back.
C6_ClassifiedPassesThrough ==
    (op = "handleSquidexError" /\ instanceofSquidexError(error)) =>
        result = Threw(error)

\* the handler was handed an error it had itself constructed from a transport failure
C6_Witness ==
    /\ op = "handleSquidexError"
    /\ instanceofSquidexError(error)
    /\ error.id = 2
    /\ error.name = "SquidexRateLimitError"
    /\ result = Threw(error)

\* what C7 says isRetryableError returns
ExpectedRetryable(e) ==
    IF e.t = "squidex" THEN e.retryable
    ELSE IF e.t = "axios" THEN
        \/ e.response.t = "absent"
        \/ e.response.status = 429
        \/ e.response.status >= 500
    ELSE FALSE

\* C7: isRetryableError returns the retryable flag of a SquidexError; for a raw
\* transport failure true without a status, true with status 429 or >= 500 and false
\* with any other status; and false for every other value.
C7_RetryableView ==
    op = "isRetryableError" =>
        result.how = "returned" /\ result.value = ExpectedRetryable(error)

---------------------------------------------------------------------------
(* Properties of HttpClient, checked under SpecHttp *)

\* isRetryableError(e) returns true
Retryable(e) ==
    LET r == isRetryableError(e) IN r.how = "returned" /\ r.value

\* this step sends a further attempt of the current request
FurtherAttempt == attempts >= 1 /\ attempts' = attempts + 1

\* the most recent attempt failed with a status that is terminal
TerminalStatus ==
    /\ failure.t = "axios"
    /\ failure.response.t = "response"
    /\ failure.response.status \in {400, 401, 403, 404}

\* C8: a further attempt is sent only after a failure that isRetryableError accepts
\* and within the maximum number of retries; a failed attempt that is not to be
\* retried goes to the error interceptor, which raises without another attempt; and
\* after a failure with status 400, 401, 403 or 404 no further attempt is sent.
C8_RetryOnlyRetryableWhileRetriesRemain ==
    [][/\ FurtherAttempt =>
            /\ failure.t = "axios"
            /\ Retryable(failure)
            /\ attempts' <= 1 + retries(config)
       /\ (pc = "failed"
            /\ ~(Retryable(failure) /\ attempts <= retries(config))) =>
                pc' = "intercepting" /\ attempts' = attempts
       /\ pc = "intercepting" => pc' \in {"intercepting", "rejected"} /\ attempts' = attempts
       /\ (TerminalStatus /\ pc \in {"failed", "waiting", "intercepting"}) =>
                ~FurtherAttempt /\ pc' \in {"intercepting", "rejected"}
      ]_vars

\* a request was retried once and then raised on a 404
C8_Witness ==
    /\ pc = "rejected"
    /\ attempts = 2
    /\ TerminalStatus
    /\ failure.response.status = 404

\* C9: the delay before retry N is baseDelay * 2^(N-1), baseDelay being the positive
\* configured retryDelay, or 1000 when none is configured; each delay is twice the
\* one before it.
C9_ExponentialBackoff ==
    \A n \in 1..Len(delays) :
        /\ (config.retryDelay.set /\ config.retryDelay.v > 0) =>
                delays[n] = config.retryDelay.v * 2^(n - 1)
        /\ ~config.retryDelay.set => delays[n] = 1000 * 2^(n - 1)
        /\ (n > 1 /\ delays[1] > 0) => delays[n] = 2 * delays[n - 1]

\* three retries with baseDelay 1000 waited 1000, 2000 and 4000
C9_Witness ==
    /\ config.retryDelay = Some(1000)
    /\ delays = <<1000, 2000, 4000>>

\* C11: top and skip validate nothing: once top (resp. skip) was called, with any
\* number, zero and negative ones included, what build() returns has $top (resp.
\* $skip) equal to exactly the argument of the latest call; the key is absent only
\* if the method was never called.
C11_TopSkipUnvalidated ==
    /\ IF latest.top.set
         THEN HasKey(Built, "$top") /\ Built["$top"] = latest.top.v
         ELSE ~HasKey(Built, "$top")
    /\ IF latest.skip.set
         THEN HasKey(Built, "$skip") /\ Built["$skip"] = latest.skip.v
         ELSE ~HasKey(Built, "$skip")

\* build() returned $top 0 and $skip -1
C11_Witness ==
    /\ ret.kind = "query"
    /\ latest.top = Some(0)
    /\ latest.skip = Some(-1)
    /\ HasKey(ret.query, "$top") /\ ret.query["$top"] = 0
    /\ HasKey(ret.query, "$skip") /\ ret.query["$skip"] = -1

\* the $orderby text the arguments of an orderBy call stand for: the field, a space
\* and the direction, 'asc' when no direction was given
OrderByOf(args) ==
    args[1] \o <<" ">> \o (IF Len(args) = 2 THEN args[2] ELSE <<"a", "s", "c">>)

\* C12: orderBy, top, skip and search are last-write-wins and independent of each
\* other: what build() returns has, for each of $orderby, $top, $skip and $search,
\* the value of the latest call of its own method and nothing else decides it (the
\* key is absent when that method was never called), and a builder on which nothing
\* was called builds an object with no keys.
C12_SettingsLastWriteWins ==
    /\ IF latest.orderBy.set
         THEN HasKey(Built, "$orderby") /\ Built["$orderby"] = OrderByOf(latest.orderBy.v)
         ELSE ~HasKey(Built, "$orderby")
    /\ IF latest.top.set
         THEN HasKey(Built, "$top") /\ Built["$top"] = latest.top.v
         ELSE ~HasKey(Built, "$top")
    /\ IF latest.skip.set
         THEN HasKey(Built, "$skip") /\ Built["$skip"] = latest.skip.v
         ELSE ~HasKey(Built, "$skip")
    /\ IF latest.search.set
         THEN HasKey(Built, "$search") /\ Built["$search"] = latest.search.v
         ELSE ~HasKey(Built, "$search")
    /\ (calls = <<>> /\ latest = NoSetterCalls) => DOMAIN Built = {}

\* C13: once orderBy was called, what build() returns has $orderby equal to the
\* field of the latest call, a space and 'asc' when that call gave no direction or
\* gave 'asc', and the field, a space and 'desc' when it gave 'desc'; earlier
\* orderBy calls leave no trace in it.
C13_OrderByLatestOnly ==
    latest.orderBy.set =>
        /\ HasKey(Built, "$orderby")
        /\ LET args == latest.orderBy.v
               given == IF Len(args) = 2 THEN args[2] ELSE <<>>
           IN  Built["$orderby"] =
                    IF given = <<"d", "e", "s", "c">>
                      THEN args[1] \o <<" ", "d", "e", "s", "c">>
                      ELSE args[1] \o <<" ", "a", "s", "c">>

\* the latest orderBy call gave field 'g' and no direction, and build() returned
\* 'g asc'
C13_Witness ==
    /\ ret.kind = "query"
    /\ latest.orderBy = Some(<<<<"g">>>>)
    /\ orderByClause = Some(<<"g", " ", "a", "s", "c">>)
    /\ HasKey(ret.query, "$orderby")
    /\ ret.query["$orderby"] = <<"g", " ", "a", "s", "c">>

IsPrefix(s, t) == Len(s) <= Len(t) /\ SubSeq(t, 1, Len(s)) = s

\* C14: build() leaves the builder as it was: the object it returns is the one the
\* builder stood for before the call and still stands for after it, so a second
\* build() right after returns an equal object; the call made after a build() adds
\* to what was there: at most one key of the object built before differs afterwards,
\* and the $filter built before is the leading part of the $filter built after.
C14_BuildLeavesBuilderUnchanged ==
    [][/\ ret'.kind = "query" =>
            /\ ret'.query = Built
            /\ Built' = Built
            /\ UNCHANGED <<filters, orderByClause, topLimit, skipOffset, searchQuery>>
       /\ (ret.kind = "query" /\ ret'.kind = "query") => ret'.query = ret.query
       /\ ret.kind = "query" =>
            /\ Cardinality({k \in DOMAIN ret.query :
                    ~HasKey(Built', k) \/ Built'[k] # ret.query[k]}) <= 1
            /\ HasKey(ret.query, "$filter") =>
                    /\ HasKey(Built', "$filter")
                    /\ IsPrefix(ret.query["$filter"], Built'["$filter"])
      ]_vars

\* build() returned an object with two clauses and a page size, and the builder
\* still stands for that object
C14_Witness ==
    /\ ret.kind = "query"
    /\ Len(filters) = 2
    /\ topLimit.set
    /\ HasKey(ret.query, "$filter") /\ HasKey(ret.query, "$top")
    /\ ret.query = Built

\* how the numbers and booleans passed to the clause methods are written
WrittenBare(v) ==
    CASE v = Num(-3) -> <<"-", "3">>
      [] v = Num(1) -> <<"1">>
      [] v = Num(2) -> <<"2">>
      [] v = Num(12) -> <<"1", "2">>
      [] v = Bool(TRUE) -> <<"t", "r", "u", "e">>

\* a string between single quotes, its characters as they are
Quoted(s) == <<"'">> \o s \o <<"'">>

\* C15: every equals and notEquals call appended exactly one clause, 'field eq
\* literal' resp. 'field ne literal', where a string literal is the string between
\* single quotes with its characters unchanged (an embedded quote stays as it is)
\* and a number or boolean literal is written bare.
C15_EqualsNotEqualsClauses ==
    /\ Len(filters) = Len(calls)
    /\ \A i \in 1..Len(calls) :
        LET call == calls[i]
            literal == IF call.value.t = "string"
                         THEN Quoted(call.value.s)
                         ELSE WrittenBare(call.value)
        IN  /\ call.m = "equals" => filters[i] = call.field \o <<" ", "e", "q", " ">> \o literal
            /\ call.m = "notEquals" => filters[i] = call.field \o <<" ", "n", "e", " ">> \o literal

\* equals('f', "o'k") and notEquals('f', -3) appended f eq 'o'k' and f ne -3
C15_Witness ==
    /\ Len(calls) = 2
    /\ calls[1].m = "equals" /\ calls[1].value = Str(<<"o", "'", "k">>)
    /\ calls[2].m = "notEquals" /\ calls[2].value = Num(-3)
    /\ filters = <<<<"f", " ", "e", "q", " ", "'", "o", "'", "k", "'">>, <<"f", " ", "n", "e", " ", "-", "3">>>>

\* how the value lists passed to in() are written between the parentheses
WrittenList(vs) ==
    CASE vs = <<>> -> <<>>
      [] vs = <<Str(<<"a">>), Str(<<"b">>)>> -> <<"'", "a", "'", ",", "'", "b", "'">>
      [] vs = <<Num(2), Num(1), Num(2)>> -> <<"2", ",", "1", ",", "2">>

\* C16: every in call appended exactly one clause 'field in (v1,v2,...)': the
\* values in the order given, duplicates kept, separated by ',' without spaces,
\* strings between single quotes and numbers bare; an empty list gives 'field in ()'.
C16_InClause ==
    /\ Len(filters) = Len(calls)
    /\ \A i \in 1..Len(calls) :
        calls[i].m = "in" =>
            filters[i] = calls[i].field \o <<" ", "i", "n", " ", "(">> \o WrittenList(calls[i].value) \o <<")">>

\* in('f', [2, 1, 2]) and in('f', []) appended f in (2,1,2) and f in ()
C16_Witness ==
    /\ Len(calls) = 2
    /\ calls[1].m = "in" /\ calls[1].value = <<Num(2), Num(1), Num(2)>>
    /\ calls[2].m = "in" /\ calls[2].value = <<>>
    /\ filters = <<<<"f", " ", "i", "n", " ", "(", "2", ",", "1", ",", "2", ")">>, <<"f", " ", "i", "n", " ", "(", ")">>>>

\* C17: greaterThan, greaterThanOrEqual, lessThan and lessThanOrEqual appended
\* 'field gt n', 'field ge n', 'field lt n' and 'field le n' with n written bare;
\* contains, startsWith and endsWith appended contains(field, 'value'),
\* startswith(field, 'value') and endswith(field, 'value'); raw appended its
\* expression unchanged; each call appended exactly one clause.
C17_ComparisonFunctionRawClauses ==
    /\ Len(filters) = Len(calls)
    /\ \A i \in 1..Len(calls) :
        LET call == calls[i]
            compared(o) == call.field \o <<" ">> \o o \o <<" ">> \o WrittenBare(call.value)
            applied(f) == f \o <<"(">> \o call.field \o <<",", " ">>
                            \o Quoted(call.value.s) \o <<")">>
        IN  /\ call.m = "greaterThan" => filters[i] = compared(<<"g", "t">>)
            /\ call.m = "greaterThanOrEqual" => filters[i] = compared(<<"g", "e">>)
            /\ call.m = "lessThan" => filters[i] = compared(<<"l", "t">>)
            /\ call.m = "lessThanOrEqual" => filters[i] = compared(<<"l", "e">>)
            /\ call.m = "contains" => filters[i] = applied(<<"c", "o", "n", "t", "a", "i", "n", "s">>)
            /\ call.m = "startsWith" => filters[i] = applied(<<"s", "t", "a", "r", "t", "s", "w", "i", "t", "h">>)
            /\ call.m = "endsWith" => filters[i] = applied(<<"e", "n", "d", "s", "w", "i", "t", "h">>)
            /\ call.m = "raw" => filters[i] = call.value

\* lessThanOrEqual('f', 12) and startsWith('f', "o'k") appended f le 12 and
\* startswith(f, 'o'k')
C17_Witness ==
    /\ Len(calls) = 2
    /\ calls[1].m = "lessThanOrEqual" /\ calls[1].value = Num(12)
    /\ calls[2].m = "startsWith" /\ calls[2].value = Str(<<"o", "'", "k">>)
    /\ filters = <<<<"f", " ", "l", "e", " ", "1", "2">>, <<"s", "t", "a", "r", "t", "s", "w", "i", "t", "h", "(", "f", ",", " ", "'", "o", "'", "k", "'", ")">>>>

\* the string the precedence of C18 picks from each response body, if any: the body
\* itself, its message field, its error field or that field's message, its details
\* joined with ', '
Candidate(data) ==
    CASE data = Str(<<>>) -> Some(<<>>)
      [] data = Str(<<"b">>) -> Some(<<"b">>)
      [] data = Obj(Str(<<"m">>), Str(<<"e">>), Absent) -> Some(<<"m">>)
      [] data = Obj(Str(<<>>), Str(<<"e">>), Absent) -> Some(<<>>)
      [] data = Obj(Num(7), Str(<<"e">>), Absent) -> Some(<<"e">>)
      [] data = Obj(Absent, Obj(Str(<<"n">>), Absent, Absent), Absent) -> Some(<<"n">>)
      [] data = Obj(Absent, Absent,
                    Arr(<<Str(<<"d">>), Obj(Str(<<"m">>), Absent, Absent), Num(7)>>)) ->
            Some(<<"d", ",", " ", "m", ",", " ", "7">>)
      [] data = Obj(Absent, Absent, Arr(<<>>)) -> Some(<<>>)
      [] data = Obj(Absent, Obj(Absent, Absent, Absent), Arr(<<Str(<<"d">>)>>)) ->
            Some(<<"d">>)
      [] OTHER -> Undefined

\* the text used for a status when neither the body nor the transport failure has one
DefaultText(status) ==
    CASE status \in {401, 403} -> <<"A", "u", "t", "h", "e", "n", "t", "i", "c", "a", "t", "i", "o", "n", " ", "f", "a", "i", "l", "e", "d">>
      [] status = 404 -> <<"R", "e", "s", "o", "u", "r", "c", "e", " ", "n", "o", "t", " ", "f", "o", "u", "n", "d">>
      [] status = 400 -> <<"V", "a", "l", "i", "d", "a", "t", "i", "o", "n", " ", "e", "r", "r", "o", "r">>
      [] status = 429 -> <<"R", "a", "t", "e", " ", "l", "i", "m", "i", "t", " ", "e", "x", "c", "e", "e", "d", "e", "d">>
      [] status \in {500, 502, 503, 504} -> <<"S", "e", "r", "v", "e", "r", " ", "e", "r", "r", "o", "r">>
      [] OTHER -> <<"U", "n", "k", "n", "o", "w", "n", " ", "e", "r", "r", "o", "r">>

\* C18 (as stated): for a transport failure with a response body, the message of the
\* classified error is the string the precedence picks from the body, and the
\* transport failure's own message when it picks none.
C18_MessagePrecedence ==
    (HandledWithStatus /\ error.response.data.t \notin {"undefined", "null"}) =>
        /\ result.how = "threw"
        /\ LET picked == Candidate(error.response.data)
           IN  result.value.message = IF picked.set THEN picked.v ELSE error.message

\* C18 (amended): for a transport failure with a response, the message of the
\* classified error is the string the precedence picks from the body when that
\* string is not empty; when it is empty or none is picked, the transport failure's
\* own message; and when that is empty too, the default text of the status.
C18_MessagePrecedenceWithDefaults ==
    HandledWithStatus =>
        /\ result.how = "threw"
        /\ LET picked == Candidate(error.response.data)
           IN  result.value.message =
                    IF picked.set /\ picked.v # <<>> THEN picked.v
                    ELSE IF error.message # <<>> THEN error.message
                    ELSE DefaultText(error.response.status)

\* a 400 whose body has a message and an error field was raised with the message
\* field's text
C18_Witness ==
    /\ HandledWithStatus
    /\ error.response.status = 400
    /\ error.response.data = Obj(Str(<<"m">>), Str(<<"e">>), Absent)
    /\ error.message = <<>>
    /\ result.how = "threw"
    /\ result.value.message = <<"m">>

\* C19: a value passed to handleSquidexError that is neither an Axios error nor a
\* SquidexError is raised as a base SquidexError that is not retryable and has no
\* status code; its message is the value's message when the value is an Error, and
\* its details are the value itself when the value is an object.
C19_OtherFailuresWrapped ==
    (op = "handleSquidexError" /\ error.t # "axios" /\ error.t # "squidex") =>
        /\ Classified("SquidexError", FALSE)
        /\ result.value.statusCode = Undefined
        /\ error.t = "error" => result.value.message = error.message
        /\ error.t \in {"error", "object"} => result.value.details = Some(error)

\* C20: every call of a QueryBuilder method other than build() returns the builder
\* it was called on, whatever its arguments, and none ends by raising: a step either
\* returns the builder itself, or is a build(), which returns a query object and
\* changes nothing of the builder.
C20_MethodsReturnTheBuilder ==
    [][\/ ret' = This
       \/ /\ ret'.kind = "query"
          /\ UNCHANGED <<filters, orderByClause, topLimit, skipOffset, searchQuery>>
          /\ UNCHANGED <<calls, latest>>
      ]_vars

\* two clause methods, the second of them in, and three settings were called, and
\* the latest call returned the builder
C20_Witness ==
    /\ ret = This
    /\ Len(calls) = 2
    /\ calls[2].m = "in"
    /\ latest.orderBy.set /\ latest.top.set /\ latest.search = Some(<<>>)

\* what a QueryBuilder with fields and history b builds is decided by the calls made
\* on it: its $filter by its clause-appending calls, its $orderby and $top by the
\* latest orderBy and top call made on it
OwnCallsDecide(b) ==
    /\ IF Len(b.calls) = 0
         THEN ~HasKey(BuiltOf(b), "$filter")
         ELSE /\ HasKey(BuiltOf(b), "$filter")
              /\ BuiltOf(b)["$filter"] =
                    JoinedInOrder([i \in 1..Len(b.calls) |-> Rendered(b.calls[i])],
                                  Len(b.calls))
    /\ IF b.latest.orderBy.set
         THEN /\ HasKey(BuiltOf(b), "$orderby")
              /\ BuiltOf(b)["$orderby"] = OrderByOf(b.latest.orderBy.v)
         ELSE ~HasKey(BuiltOf(b), "$orderby")
    /\ IF b.latest.top.set
         THEN HasKey(BuiltOf(b), "$top") /\ BuiltOf(b)["$top"] = b.latest.top.v
         ELSE ~HasKey(BuiltOf(b), "$top")

\* C21: two QueryBuilder instances share no state: in every interleaving of calls on
\* the two, what each builds is decided by the calls made on that instance alone,
\* and a call on one leaves the other, and so what it builds, as it was.
C21_BuildersShareNoState ==
    /\ [](OwnCallsDecide(Receiver) /\ OwnCallsDecide(peer))
    /\ [][\/ peer' = peer
          \/ peer' = Receiver /\ Receiver' \in {peer, NewQueryBuilder}
         ]_vars

\* the two instances stand for different queries, each with clauses and settings of
\* its own, and build() has returned the one of the instance called last
C21_Witness ==
    /\ ret.kind = "query"
    /\ Len(calls) = 2 /\ Len(peer.calls) = 1
    /\ calls[1].m = "raw" /\ peer.calls[1].m = "equals"
    /\ latest.top.set /\ ~peer.latest.top.set /\ peer.latest.orderBy.set
    /\ ret.query = BuiltOf(Receiver)
    /\ ret.query # BuiltOf(peer)

\* C22: after any sequence of configure and resetConfiguration calls, isConfigured()
\* answers true exactly when the latest of them was a configure; getClient() throws
\* exactly when it was not (nothing called, or reset since), and otherwise returns
\* the client the latest configure created, the same instance on every call.
C22_GlobalClientFollowsLatestSetup ==
    /\ answer.op = "isConfigured" => answer.value = Bool(setup.call = "configure")
    /\ answer.op = "getClient" =>
            IF setup.call = "configure"
            THEN answer.how = "returned" /\ answer.value = setup.client
            ELSE answer.how = "threw"
    /\ setup.got # Absent => setup.call = "configure" /\ setup.got = setup.client

\* configure was called twice and getClient returned the second client
C22_Witness ==
    /\ created = 2
    /\ answer.op = "getClient"
    /\ answer.how = "returned"
    /\ answer.value.id = 2
    /\ setup.got = answer.value

\* C23: a request is retried at most `retries` times and the delay before retry n is
\* `retryDelay` * 2^(n-1), where retries and retryDelay are the configured values
\* whenever they are configured, 0 included, and 3 and 1000 only when they are not.
C23_ConfiguredRetriesAndDelay ==
    LET maxRetries == IF config.retries.set THEN config.retries.v ELSE 3
        baseDelay == IF config.retryDelay.set THEN config.retryDelay.v ELSE 1000
    IN  /\ Len(delays) <= maxRetries
        /\ attempts <= 1 + maxRetries
        /\ \A n \in 1..Len(delays) : delays[n] = baseDelay * 2^(n - 1)

\* C24: getConfig() returns a copy: whatever is written through the objects it
\* returned, to their own fields or to the headers object their headers field
\* refers to, the configuration the client keeps (and so what a later getConfig()
\* returns) is as it was at construction, and so is what the client uses for its
\* requests.
C24_GetConfigReturnsACopy ==
    /\ Contents(clientConfig, headersMap) = constructedWith
    /\ axiosDefaults.timeout =
            IF constructedWith.timeout.set THEN constructedWith.timeout.v ELSE 30000
    /\ constructedWith.headers # Absent =>
            \A n \in DOMAIN constructedWith.headers.entries :
                axiosDefaults.headers[n] = constructedWith.headers.entries[n]

\* C25: a request that ends in failure raises to its caller a SquidexError, and that
\* error is the classification of the failure of the last attempt made: however many
\* retries went before and however many error interceptors it passed, it is the
\* error handleSquidexError makes of that failure, wrapped once, with its kind,
\* status, message and retryable flag; and a request resolves only in the step in
\* which an attempt in flight succeeds.
C25_CallerGetsClassificationOfLastFailure ==
    /\ [](pc = "rejected" =>
            /\ settled.how = "threw"
            /\ settled.value.t = "squidex"
            /\ settled.value = handleSquidexError(failure).value
            /\ settled.value.id = failure.id + 1)
    /\ [][settled'.how = "returned" => pc = "sending"]_vars

\* a request raised a rate limit error after three attempts
C25_Witness ==
    /\ pc = "rejected"
    /\ attempts = 3
    /\ failure.response.t = "response" /\ failure.response.status = 429
    /\ settled.how = "threw"
    /\ settled.value.name = "SquidexRateLimitError"

\* C26: the two views of retryability agree: for every raw transport failure, with
\* any status or none, what isRetryableError returns for it is the retryable flag of
\* the error handleSquidexError raises for it.
C26_RetryabilityViewsAgree ==
    (op = "handleSquidexError" /\ error.t = "axios") =>
        /\ result.how = "threw"
        /\ result.value.t = "squidex"
        /\ isRetryableError(error) = Returned(result.value.retryable)

\* C27: for a transport failure that has an HTTP status, the statusCode of the error
\* handleSquidexError raises is the status of the response, whatever the kind of the
\* error, for 401 and for 403 as well.
C27_StatusCodeIsResponseStatus ==
    HandledWithStatus =>
        /\ result.how = "threw"
        /\ result.value.t = "squidex"
        /\ result.value.statusCode = Some(error.response.status)

\* a request is under way: sent and neither resolved nor raised yet
Pending == pc \in {"sending", "failed", "waiting", "intercepting"}

\* C28: every request terminates: if every attempt ends, with a response or with a
\* failure, a request under way eventually resolves with the response data or
\* raises one classified error; it makes at most 1 + retries attempts, retries being
\* the maximum axios-retry is given; and an attempt that succeeds ends the request
\* with its data, no further attempt being made.
C28_RequestTerminates ==
    /\ [](attempts <= 1 + retries(config))
    /\ [][(pc = "sending" /\ pc' = "resolved") =>
            settled' = Returned(ResponseData) /\ attempts' = attempts]_vars
    /\ [][pc = "resolved" => ~FurtherAttempt]_vars
    /\ Pending ~> \/ pc = "resolved" /\ settled = Returned(ResponseData)
                  \/ pc = "rejected" /\ settled.how = "threw" /\ settled.value.t = "squidex"

\* a request resolved on its second attempt
C28_Witness ==
    /\ pc = "resolved"
    /\ attempts = 2
    /\ Len(delays) = 1
    /\ settled = Returned(ResponseData)

\* C29: whenever what build() returns has a $filter key, its value is not the empty
\* string, whatever calls were made on the builder, raw with any string included.
C29_FilterNeverEmpty ==
    /\ HasKey(Built, "$filter") => Built["$filter"] # <<>>
    /\ ret.kind = "query" /\ HasKey(ret.query, "$filter") => ret.query["$filter"] # <<>>

\* the same clause-appending calls, with the same arguments, in the same order
SameCalls(a, b) ==
    /\ Len(a) = Len(b)
    /\ \A i \in 1..Len(a) :
        a[i].m = b[i].m /\ a[i].field = b[i].field /\ a[i].value = b[i].value

\* C30: what build() returns depends only on the clause-appending calls, in their
\* order, and on the latest call of each of orderBy, top, skip and search: two
\* builders that received the same clause-appending calls and whose latest calls of
\* each setter had the same arguments build equal objects, in whatever order the
\* setters were called among the clauses and among each other.
C30_SetterOrderDoesNotMatter ==
    (SameCalls(calls, peer.calls) /\ latest = peer.latest) =>
        BuiltOf(Receiver) = BuiltOf(peer)

\* both instances received a clause, a page size, a sort order and a search text,
\* and build() returned the object both stand for
C30_Witness ==
    /\ ret.kind = "query"
    /\ Len(calls) = 1
    /\ SameCalls(calls, peer.calls) /\ latest = peer.latest
    /\ latest.top.set /\ latest.orderBy.set /\ latest.search = Some(<<"a">>)
    /\ ret.query = BuiltOf(peer)
    /\ DOMAIN ret.query = {"$filter", "$orderby", "$top", "$search"}

=============================================================================
